---- MODULE Spec2Model ----
(***************************************************************************)
(* Model of the Earth Engine time-series export scripts:                   *)
(*   exportTimeSeries / formatTable        (time_series_extract.js)        *)
(*   getSubset / divideAndExportTimeSeries (chunked variant)               *)
(*                                                                         *)
(* A feature is [geometry, properties]; properties is a function from      *)
(* property names (strings) to values.  A property that is null on the     *)
(* platform is a name missing from the domain.  Band values are exact      *)
(* rationals [num, den] (den > 0); ee.Number.format('%.2f') turns them     *)
(* into strings.  Collections are sequences.                               *)
(***************************************************************************)
EXTENDS Integers, Sequences, FiniteSets, TLC

VARIABLES
    collection,         \* the points FeatureCollection given to the run
    numChunks,          \* argument numChunks
    startDate, endDate, \* arguments startDate, endDate (day numbers)
    multiplier,         \* argument multiplier, a rational [num, den]
    pc,                 \* position of the script
    chunkSize,          \* local chunkSize of divideAndExportTimeSeries
    i,                  \* loop variable i of divideAndExportTimeSeries
    subset,             \* local subset: featureCollection of the last call
    triplets,           \* local triplets of the last exportTimeSeries call
    timeSeriesResults,  \* local timeSeriesResults (table given to the export)
    chunks,             \* the subsets passed to exportTimeSeries, in call order
    exports             \* the Export.table.toDrive requests issued, in order

vars == <<collection, numChunks, startDate, endDate, multiplier, pc, chunkSize,
          i, subset, triplets, timeSeriesResults, chunks, exports>>

----------------------------------------------------------------------------
(* Bounds of the model *)

MaxPoints == 3
MaxChunks == 4
MaxTable == 3

(* Arguments of the example calls *)
rowIdName == "id"
colIdName == "imageId"
bandAlias == "ndvi"
outputFolder == "eeT"
Sentinel == [num |-> -9999, den |-> 1]

----------------------------------------------------------------------------
(* Sequence helpers (platform list primitives) *)

Min(a, b) == IF a < b THEN a ELSE b

Range(s) == {s[k] : k \in 1..Len(s)}

\* F applied to the value of v, computed once
With(v, F(_)) == CHOOSE r \in {F(x) : x \in {v}} : TRUE

RECURSIVE Concat(_)
Concat(ss) == IF ss = <<>> THEN <<>> ELSE Head(ss) \o Concat(Tail(ss))

RECURSIVE Perms(_)
Perms(S) ==
    IF S = {} THEN {<<>>}
    ELSE UNION {{<<x>> \o p : p \in Perms(S \ {x})} : x \in S}

SeqsNoRepeat(S, n) ==
    UNION {Perms(T) : T \in {U \in SUBSET S : Cardinality(U) <= n}}

SeqsUpTo(S, n) == UNION {[1..k -> S] : k \in 0..n}

----------------------------------------------------------------------------
(* Features *)

Feature(g, props) == [geometry |-> g, properties |-> props]

Has(feature, key) == key \in DOMAIN feature.properties

SetProp(feature, key, value) ==
    [feature EXCEPT !.properties =
        [k \in DOMAIN feature.properties \cup {key} |->
            IF k = key THEN value ELSE feature.properties[k]]]

\* feature.set(dictionary)
SetAll(feature, dict) ==
    [feature EXCEPT !.properties =
        [k \in DOMAIN feature.properties \cup DOMAIN dict |->
            IF k \in DOMAIN dict THEN dict[k] ELSE feature.properties[k]]]

\* feature.select([names]): the geometry and only the named properties
SelectProps(feature, names) ==
    [feature EXCEPT !.properties =
        [k \in DOMAIN feature.properties \cap names |-> feature.properties[k]]]

----------------------------------------------------------------------------
(* Numbers *)

\* ee.Number(value).format('%.2f'): two decimals, rounded half up on the
\* magnitude, the sign of a negative value kept
Format2(x) ==
    LET a  == IF x.num < 0 THEN -x.num ELSE x.num
        q  == (2 * a * 100 + x.den) \div (2 * x.den)
        ip == q \div 100
        fp == q % 100
    IN  (IF x.num < 0 THEN "-" ELSE "") \o ToString(ip) \o "."
            \o (IF fp < 10 THEN "0" ELSE "") \o ToString(fp)

\* ee.List([feature.get(key), default]).reduce(ee.Reducer.firstNonNull())
FirstNonNull(feature, key, default) ==
    IF Has(feature, key) THEN feature.properties[key] ELSE default

----------------------------------------------------------------------------
(* The inputs: the image collection behind imageCollectionId and the points *)

\* An image: id, timestamp (day number) and the raw value of the selected
\* band at each location; a masked pixel is a location missing from band.
ImageCollection ==
    << [id |-> "m1", time |-> 1, band |-> (1 :> 5    @@ 2 :> -1250 @@ 3 :> 50)],
       [id |-> "m2", time |-> 2, band |-> (1 :> 125  @@ 3 :> 0     @@ 4 :> 7)],
       [id |-> "m3", time |-> 3, band |-> (2 :> 9999 @@ 3 :> -3    @@ 4 :> 20000)] >>

\* Points: geometry (a location) and properties id and name.  The fourth
\* point repeats the id of the first: the code does not require unique ids.
PointPool ==
    { Feature(1, [id |-> "p1", name |-> "a"]),
      Feature(2, [id |-> "p2", name |-> "b"]),
      Feature(3, [id |-> "p3", name |-> "c"]),
      Feature(4, [id |-> "p1", name |-> "d"]) }

DateRanges == { <<0, 4>>, <<1, 3>>, <<2, 3>>, <<2, 2>>, <<3, 1>> }

Multipliers == { [num |-> 1, den |-> 1], [num |-> 1, den |-> 10000] }

----------------------------------------------------------------------------
(* exportTimeSeries *)

FilterDateInclusiveEnd(images, start, end) ==
    SelectSeq(images, LAMBDA img : start <= img.time /\ img.time <= end)

\* imageCollection.filterDate(startDate, endDate).select(band)
FilterDate(images, start, end) ==
    SelectSeq(images, LAMBDA img : start <= img.time /\ img.time < end)

ScaleImageUnscaled(image, mult) ==
    [image EXCEPT !.band =
        [g \in DOMAIN image.band |-> [num |-> image.band[g], den |-> 1]]]

\* image.multiply(multiplier).copyProperties(image, [...])
ScaleImage(image, mult) ==
    [image EXCEPT !.band =
        [g \in DOMAIN image.band |->
            [num |-> image.band[g] * mult.num, den |-> mult.den]]]

ScaledBand(filtered, mult) ==
    [k \in 1..Len(filtered) |-> ScaleImage(filtered[k], mult)]

ReduceRegionsDropNull(image, featureCollection, alias) ==
    LET measured == SelectSeq(featureCollection,
                              LAMBDA f : f.geometry \in DOMAIN image.band)
    IN  [k \in 1..Len(measured) |->
            SetProp(measured[k], alias, image.band[measured[k].geometry])]

\* image.reduceRegions({collection, reducer: mean().setOutputs([alias]), scale})
\* every feature of the collection comes back; the output property is set
\* only where the image has an unmasked pixel
ReduceRegions(image, featureCollection, alias) ==
    [k \in 1..Len(featureCollection) |->
        IF featureCollection[k].geometry \in DOMAIN image.band
        THEN SetProp(featureCollection[k], alias,
                     image.band[featureCollection[k].geometry])
        ELSE featureCollection[k]]

\* scaledBand.map(image => reduceRegions(...).map(f => f.set('imageId', id)))
\*     .flatten()
Triplets(scaledBand, featureCollection, alias) ==
    Concat([k \in 1..Len(scaledBand) |->
        With(ReduceRegions(scaledBand[k], featureCollection, alias),
             LAMBDA sampled :
                [j \in 1..Len(sampled) |->
                    SetProp(sampled[j], colIdName, scaledBand[k].id)])])

----------------------------------------------------------------------------
(* formatTable *)

RECURSIVE DistinctFrom(_, _, _)
DistinctFrom(table, rowId, seen) ==
    IF table = <<>> THEN <<>>
    ELSE IF Head(table).properties[rowId] \in seen
         THEN DistinctFrom(Tail(table), rowId, seen)
         ELSE <<Head(table)>> \o
              DistinctFrom(Tail(table), rowId,
                           seen \cup {Head(table).properties[rowId]})

DistinctNone(table, rowId) == table

\* table.distinct(rowId): one feature for each value of rowId
Distinct(table, rowId) == DistinctFrom(table, rowId, {})

\* ee.Join.saveAll(matchesKey).apply({primary, secondary,
\*     condition: ee.Filter.equals({leftField: rowId, rightField: rowId})})
\* inner join: a primary row without a match is dropped
JoinSaveAll(matchesKey, primary, secondary, rowId) ==
    LET Matches(row) ==
            SelectSeq(secondary,
                LAMBDA f : f.properties[rowId] = row.properties[rowId])
    IN  With(SelectSeq(primary, LAMBDA row : Matches(row) # <<>>), LAMBDA kept :
            [k \in 1..Len(kept) |-> SetProp(kept[k], matchesKey, Matches(kept[k]))])

\* ee.Dictionary(list) of a flat list key, value, key, value, ...;
\* a key given twice keeps its last value
RECURSIVE Dictionary(_)
Dictionary(flat) ==
    IF flat = <<>> THEN <<>>
    ELSE With(Len(flat), LAMBDA n :
             With(Dictionary(SubSeq(flat, 1, n - 2)), LAMBDA rest :
                 [k \in DOMAIN rest \cup {flat[n - 1]} |->
                     IF k = flat[n - 1] THEN flat[n] ELSE rest[k]]))

FormatRowFirstMatchOnly(row, rowId, colId, alias) ==
    LET feature == row.properties["matches"][1]
    IN  SetAll(SelectProps(row, {rowId}),
               Dictionary(<<feature.properties[colId],
                            Format2(FirstNonNull(feature, alias, Sentinel))>>))

FormatRowSkipNull(row, rowId, colId, alias) ==
    LET matches == SelectSeq(row.properties["matches"],
                             LAMBDA f : Has(f, alias))
        values  == [k \in 1..Len(matches) |->
                      << matches[k].properties[colId],
                         Format2(matches[k].properties[alias]) >>]
    IN  SetAll(SelectProps(row, {rowId}), Dictionary(Concat(values)))

FormatRowNoSelect(row, rowId, colId, alias) ==
    LET matches == row.properties["matches"]
        values  == [k \in 1..Len(matches) |->
                      << matches[k].properties[colId],
                         Format2(FirstNonNull(matches[k], alias, Sentinel)) >>]
    IN  SetAll(SelectProps(row, DOMAIN row.properties \ {"matches"}),
               Dictionary(Concat(values)))

\* the function mapped over the joined rows
FormatRow(row, rowId, colId, alias) ==
    With(row.properties["matches"], LAMBDA matches :
        With([k \in 1..Len(matches) |->
                << matches[k].properties[colId],
                   Format2(FirstNonNull(matches[k], alias, Sentinel)) >>],
             LAMBDA values :
                SetAll(SelectProps(row, {rowId}), Dictionary(Concat(values)))))

FormatTable(table, rowId, colId, alias) ==
    With(Distinct(table, rowId), LAMBDA rows :
        With(JoinSaveAll("matches", rows, table, rowId), LAMBDA joined :
            [k \in 1..Len(joined) |->
                With(joined[k], LAMBDA row : FormatRow(row, rowId, colId, alias))]))

\* Export.table.toDrive({...})
ToDrive(table, fileNamePrefix) ==
    [collection |-> table, description |-> fileNamePrefix,
     folder |-> outputFolder, fileNamePrefix |-> fileNamePrefix,
     fileFormat |-> "CSV"]

----------------------------------------------------------------------------
(* getSubset and divideAndExportTimeSeries *)

\* collection.toList(count, offset): at most count elements, starting at
\* the zero-based position offset
ToList(coll, count, offset) ==
    SubSeq(coll, offset + 1, Min(offset + count, Len(coll)))

GetSubset(coll, startIndex, endIndex) == ToList(coll, endIndex, startIndex)

ChunkSizeFloor(totalFeatures, n) == totalFeatures \div n

\* totalFeatures.divide(numChunks).ceil()
ChunkSize(totalFeatures, n) == (totalFeatures + n - 1) \div n

FileNamePrefixNoIndex(k, alias) == "chunk" \o "_" \o alias

\* 'chunk' + (i + 1) + '_' + bandAlias
FileNamePrefix(k, alias) == "chunk" \o ToString(k + 1) \o "_" \o alias

----------------------------------------------------------------------------
(* The run of divideAndExportTimeSeries *)

Init ==
    /\ collection \in SeqsNoRepeat(PointPool, MaxPoints)
    /\ numChunks \in 1..MaxChunks
    /\ \E r \in DateRanges : startDate = r[1] /\ endDate = r[2]
    /\ multiplier \in Multipliers
    /\ pc = "start"
    /\ chunkSize = 0
    /\ i = 0
    /\ subset = <<>>
    /\ triplets = <<>>
    /\ timeSeriesResults = <<>>
    /\ chunks = <<>>
    /\ exports = <<>>

\* var totalFeatures = collection.size(); var chunkSize = ...; i = 0
Begin ==
    /\ pc = "start"
    /\ chunkSize' = ChunkSize(Len(collection), numChunks)
    /\ i' = 0
    /\ pc' = "loop"
    /\ UNCHANGED <<collection, numChunks, startDate, endDate, multiplier,
                   subset, triplets, timeSeriesResults, chunks, exports>>

\* one pass of the loop body: getSubset, then the whole of exportTimeSeries
Iterate ==
    /\ pc = "loop"
    /\ i < numChunks
    /\ LET startIndex == i * chunkSize
           endIndex   == startIndex + chunkSize
       IN  \E sub \in {GetSubset(collection, startIndex, endIndex)} :
           \E filtered \in {FilterDate(ImageCollection, startDate, endDate)} :
           \E scaled \in {ScaledBand(filtered, multiplier)} :
           \E trip \in {Triplets(scaled, sub, bandAlias)} :
           \E results \in {FormatTable(trip, rowIdName, colIdName, bandAlias)} :
               /\ subset' = sub
               /\ triplets' = trip
               /\ timeSeriesResults' = results
               /\ chunks' = Append(chunks, sub)
               /\ exports' = Append(exports,
                                    ToDrive(results, FileNamePrefix(i, bandAlias)))
    /\ i' = i + 1
    /\ UNCHANGED <<collection, numChunks, startDate, endDate, multiplier,
                   pc, chunkSize>>

\* the loop condition i < numChunks fails
Exit ==
    /\ pc = "loop"
    /\ ~(i < numChunks)
    /\ pc' = "done"
    /\ UNCHANGED <<collection, numChunks, startDate, endDate, multiplier,
                   chunkSize, i, subset, triplets, timeSeriesResults, chunks,
                   exports>>

Next == Begin \/ Iterate \/ Exit

Spec == Init /\ [][Next]_vars

\* the script runs to its end: the interpreter keeps executing statements
FairSpec == Spec /\ WF_vars(Next)

----------------------------------------------------------------------------
(* formatTable on its own: applied to an arbitrary long-format table *)

\* Long-format rows: point id, image id, and the band value where measured
TripletPool ==
    { SetProp(Feature(1, [id |-> p, name |-> "a"]), colIdName, m) :
          p \in {"p1", "p2"}, m \in {"m1", "m2"} }
    \cup
    { SetProp(SetProp(Feature(1, [id |-> p, name |-> "a"]), colIdName, m),
              bandAlias, [num |-> 125, den |-> 100]) :
          p \in {"p1", "p2"}, m \in {"m1", "m2"} }

InitFormat ==
    /\ collection = <<>>
    /\ numChunks = 1
    /\ startDate = 0
    /\ endDate = 0
    /\ multiplier = [num |-> 1, den |-> 1]
    /\ pc = "format"
    /\ chunkSize = 0
    /\ i = 0
    /\ subset = <<>>
    /\ triplets \in SeqsUpTo(TripletPool, MaxTable)
    /\ timeSeriesResults = <<>>
    /\ chunks = <<>>
    /\ exports = <<>>

\* var timeSeriesResults = formatTable(triplets, 'id', 'imageId', bandAlias)
FormatCall ==
    /\ pc = "format"
    /\ timeSeriesResults' = FormatTable(triplets, rowIdName, colIdName, bandAlias)
    /\ pc' = "formatted"
    /\ UNCHANGED <<collection, numChunks, startDate, endDate, multiplier,
                   chunkSize, i, subset, triplets, chunks, exports>>

NextFormat == FormatCall

SpecFormat == InitFormat /\ [][NextFormat]_vars

----------------------------------------------------------------------------
(* Vocabulary of the properties *)

Idx(s) == 1..Len(s)

PointIds(table) == {table[k].properties[rowIdName] : k \in Idx(table)}

ImageIdsOf(table) == {table[k].properties[colIdName] : k \in Idx(table)}

Columns(row) == DOMAIN row.properties \ {rowIdName}

RowsOf(wide, p) == {k \in Idx(wide) : wide[k].properties[rowIdName] = p}

PairCount(table, p, m) ==
    Cardinality({k \in Idx(table) : /\ table[k].properties[rowIdName] = p
                                    /\ table[k].properties[colIdName] = m})

NoDuplicatePair(table) ==
    \A p \in PointIds(table), m \in ImageIdsOf(table) : PairCount(table, p, m) <= 1

UniqueIds(points) ==
    \A j, k \in Idx(points) :
        points[j].properties[rowIdName] = points[k].properties[rowIdName] => j = k

InRange(img) == startDate <= img.time /\ img.time < endDate

ImagesInRange == {ImageCollection[k] : k \in {j \in Idx(ImageCollection) :
                                                InRange(ImageCollection[j])}}

----------------------------------------------------------------------------
(* C1: chunk i is exactly the points at positions i*chunkSize up to, not
   including, (i+1)*chunkSize (truncated at N); so no point is exported in
   two chunks and no chunk holds more than chunkSize points. *)
C1_ChunksAreSlices ==
    \A k \in Idx(chunks) :
        /\ chunks[k] = SubSeq(collection, (k - 1) * chunkSize + 1,
                              Min(k * chunkSize, Len(collection)))
        /\ Len(chunks[k]) <= chunkSize
        /\ \A l \in Idx(chunks) : l # k => Range(chunks[k]) \cap Range(chunks[l]) = {}

(* C2: the wide table has as many rows as there are distinct point ids in the
   triplets, and every point id is the id of exactly one wide row. *)
C2_RowPerPointId ==
    pc = "formatted" =>
        /\ Len(timeSeriesResults) = Cardinality(PointIds(triplets))
        /\ \A p \in PointIds(triplets) :
               Cardinality(RowsOf(timeSeriesResults, p)) = 1

C2_Witness ==
    /\ pc = "formatted"
    /\ Len(triplets) = 3
    /\ Cardinality(PointIds(triplets)) = 2
    /\ Len(timeSeriesResults) = 2

C4_CellOfPointAndImage ==
    \A k \in Idx(exports) :
        \A j \in Idx(chunks[k]) :
            LET point == chunks[k][j]
                p     == point.properties[rowIdName]
                rows  == RowsOf(exports[k].collection, p)
            IN  (\A n \in Idx(chunks[k]) :
                     chunks[k][n].properties[rowIdName] = p => n = j)
                =>
                \A img \in ImagesInRange :
                    /\ Cardinality(rows) = 1
                    /\ \A r \in rows :
                         /\ img.id \in Columns(exports[k].collection[r])
                         /\ exports[k].collection[r].properties[img.id] =
                              IF point.geometry \in DOMAIN img.band
                              THEN Format2([num |-> img.band[point.geometry]
                                                        * multiplier.num,
                                            den |-> multiplier.den])
                              ELSE "-9999.00"

C4_Witness ==
    /\ multiplier = [num |-> 1, den |-> 10000]
    /\ \E k \in Idx(exports) : \E r \in Idx(exports[k].collection) :
         LET row == exports[k].collection[r].properties
         IN  /\ row[rowIdName] = "p2"
             /\ DOMAIN row = {rowIdName, "m1", "m2", "m3"}
             /\ row["m1"] = "-0.13"
             /\ row["m2"] = "-9999.00"
             /\ row["m3"] = "1.00"

(* C5: when the point ids of the sampled collection are unique (and the image
   ids of the filtered collection are), the triplets hold exactly one triplet
   for each pair of a point and an image of the filtered collection. *)
C5_OneTripletPerPair ==
    (Len(chunks) > 0 /\ UniqueIds(subset)
       /\ \A a, b \in ImagesInRange : a.id = b.id => a = b)
    =>
    /\ Len(triplets) = Len(subset) * Cardinality(ImagesInRange)
    /\ \A p \in PointIds(subset) : \A img \in ImagesInRange :
           PairCount(triplets, p, img.id) = 1
    /\ PointIds(triplets) \subseteq PointIds(subset)
    /\ ImageIdsOf(triplets) \subseteq {img.id : img \in ImagesInRange}

C5_Witness ==
    /\ Len(chunks) > 0
    /\ UniqueIds(subset)
    /\ Len(subset) = 2
    /\ Cardinality(ImagesInRange) = 2
    /\ Len(triplets) = 4
    /\ \E k \in Idx(triplets) : ~Has(triplets[k], bandAlias)

(* C6: an image produces a column of the exported table if and only if its
   timestamp is in [startDate, endDate): the columns are always image ids in
   the range, and every image in the range has a column when the point set
   is not empty. *)
C6_ColumnsAreImagesInRange ==
    \A k \in Idx(exports) :
        LET cols == UNION {Columns(exports[k].collection[r]) :
                             r \in Idx(exports[k].collection)}
        IN  /\ cols \subseteq {img.id : img \in ImagesInRange}
            /\ chunks[k] # <<>> => cols = {img.id : img \in ImagesInRange}

C6_Witness ==
    /\ startDate = 1
    /\ endDate = 3
    /\ \E k \in Idx(exports) :
         /\ chunks[k] # <<>>
         /\ \A r \in Idx(exports[k].collection) :
                Columns(exports[k].collection[r]) = {"m1", "m2"}

(* C7: when the run is over, every point of the collection is in the subset
   of at least one chunk. *)
C7_ChunksCoverAllPoints ==
    pc = "done" =>
        Range(collection) \subseteq UNION {Range(chunks[k]) : k \in Idx(chunks)}

C7_Witness ==
    /\ pc = "done"
    /\ Len(collection) = 3
    /\ numChunks = 2
    /\ Len(chunks[1]) = 2
    /\ Len(chunks[2]) = 1

\* The requests issued so far: one per chunk begun, with the chunk's prefix
C8_RequestsSoFar ==
    /\ Len(exports) = Len(chunks)
    /\ Len(exports) <= numChunks
    /\ pc = "loop" => Len(exports) = i
    /\ pc = "done" => Len(exports) = numChunks
    /\ \A k \in Idx(exports) :
         /\ exports[k].fileNamePrefix = "chunk" \o ToString(k) \o "_" \o bandAlias
         /\ \A l \in Idx(exports) :
                exports[k].fileNamePrefix = exports[l].fileNamePrefix => k = l

(* C8: the run ends, having issued exactly numChunks export requests, one at
   a time in increasing chunk order; request k carries the prefix
   'chunk' + k + '_' + bandAlias, the prefixes are pairwise distinct, and a
   chunk with an empty subset gets a request too. *)
C8_OneRequestPerChunkInOrder ==
    /\ []C8_RequestsSoFar
    /\ [][\/ exports' = exports
          \/ \E req \in {exports'[Len(exports')]} :
                 /\ exports' = Append(exports, req)
                 /\ req.fileNamePrefix = FileNamePrefix(i, bandAlias)
                 /\ i' = i + 1]_vars
    /\ <>(pc = "done")

C8_Witness ==
    /\ pc = "done"
    /\ numChunks = 3
    /\ Len(collection) = 1
    /\ Len(exports) = 3
    /\ chunks[3] = <<>>
    /\ exports[3].collection = <<>>
    /\ exports[3].fileNamePrefix = "chunk3_ndvi"

(* C9: when no (point id, image id) pair occurs twice in the triplets, every
   permutation of the triplets gives the same set of wide rows (row id,
   image-id columns and their cells). *)
C9_OrderIndependent ==
    (pc = "formatted" /\ NoDuplicatePair(triplets)) =>
        \A q \in Perms(Idx(triplets)) :
            LET permuted == [k \in Idx(triplets) |-> triplets[q[k]]]
                wide     == FormatTable(permuted, rowIdName, colIdName, bandAlias)
            IN  {wide[k].properties : k \in Idx(wide)} =
                {timeSeriesResults[k].properties : k \in Idx(timeSeriesResults)}

C9_Witness ==
    /\ pc = "formatted"
    /\ NoDuplicatePair(triplets)
    /\ Len(triplets) = 3
    /\ triplets[1].properties[rowIdName] = "p1"
    /\ triplets[2].properties[rowIdName] = "p2"
    /\ triplets[3].properties[rowIdName] = "p1"
    /\ Has(triplets[1], bandAlias) /\ ~Has(triplets[3], bandAlias)

\* A wide row's properties: the row id and image ids, nothing else
C10_RowProperties ==
    \A k \in Idx(exports) : \A r \in Idx(exports[k].collection) :
        LET props == DOMAIN exports[k].collection[r].properties
        IN  /\ rowIdName \in props
            /\ props \ {rowIdName} \subseteq
                   {ImageCollection[n].id : n \in Idx(ImageCollection)}
            /\ props \cap {"name", bandAlias, colIdName, "matches"} = {}

\* Every chunk is a run of consecutive points of the collection as it is now
C10_ChunksCutFromCollection ==
    \A k \in Idx(chunks) :
        \E a \in 0..Len(collection) : \E b \in 0..Len(collection) :
            chunks[k] = SubSeq(collection, a + 1, b)

(* C10: the point collection is never changed by a run and every chunk is cut
   from it; and a wide row has no property but the row id and image-id
   columns: nothing else of the source point or of the triplet. *)
C10_PointsUnchangedRowsBare ==
    /\ [](C10_RowProperties /\ C10_ChunksCutFromCollection)
    /\ [][collection' = collection]_vars

C10_Witness ==
    /\ pc = "done"
    /\ Len(exports) >= 2
    /\ Len(collection) = 3
    /\ \E r \in Idx(exports[2].collection) :
           DOMAIN exports[2].collection[r].properties = {rowIdName, "m2"}

====
